---------------------------- MODULE Spec2Model ----------------------------
(***************************************************************************)
(* A model of the market-performance-analysis price pipeline:              *)
(*   resolve_tickers -> fetch_prices -> align_panel -> compute_returns     *)
(*   -> performance_summary / correlation_matrix / transforms              *)
(*   -> compute_spread_proxies                                             *)
(* as app.py (lines 82-101) runs it.                                       *)
(*                                                                         *)
(* Dates are day numbers; day 0 is a Thursday, so days 2 and 3 are a       *)
(* weekend.  Floating-point cells are modelled as exact rationals plus the *)
(* three IEEE specials NaN, +inf and -inf (signed zeros and rounding are   *)
(* not modelled).  A pandas table is a record                              *)
(*   [index |-> ascending sequence of days,                                *)
(*    columns |-> sequence of labels,                                      *)
(*    data |-> [label -> [day -> value]]]                                  *)
(* where a missing cell holds NaN.                                         *)
(***************************************************************************)
EXTENDS Integers, Sequences, FiniteSets, TLC

VARIABLES
  pc,               \* position in app.py's pipeline
  world,            \* the data source: ticker -> response of yf.download
  label_to_ticker,  \* ordered mapping (sequence of [label, candidates])
  start_date,
  end_date,
  prefer_adj_close,
  forward_fill,
  business_days,
  pad_fill,         \* whether the installed pandas pads inside pct_change
  probe_log,        \* tickers handed to _probe_ticker, in call order
  resolutions,      \* resolve_tickers' result (ordered mapping)
  fetch_st,         \* fetch_prices' locals: series_map, failed_labels, resolved_map
  price_res,        \* PriceFetchResult
  prices,           \* aligned panel
  returns,
  summary,
  corr,
  drawdowns,
  normalized,
  roll_vol,
  spread_proxy,
  fred_mapping,     \* ordered mapping (sequence of [label, series_id])
  api_key,          \* the FRED credential, None when there is none
  fred_installed,   \* whether fredapi could be imported (fred_client.py 9-12)
  fred_world,       \* the macro source: series_id -> response of get_series
  fred_log,         \* series ids handed to get_series, in call order
  yields            \* fetch_fred_series' result

vars == <<pc, world, label_to_ticker, start_date, end_date, prefer_adj_close,
          forward_fill, business_days, pad_fill, probe_log, resolutions,
          fetch_st, price_res, prices, returns, summary, corr,
          drawdowns, normalized, roll_vol, spread_proxy, fred_mapping,
          api_key, fred_installed, fred_world, fred_log, yields>>

\* the state of the macro fetch, which the price pipeline never touches
fred_vars ==
  <<fred_mapping, api_key, fred_installed, fred_world, fred_log, yields>>

-----------------------------------------------------------------------------
(* Bounds of the model *)

\* days run from 0 to MaxDay
MaxDay == 4

\* most observations one raw series carries
MaxObs == 2

\* longest candidate list of a label
MaxCands == 3

-----------------------------------------------------------------------------
(* Floating-point values *)

NaN == [k |-> "nan", n |-> 0, d |-> 1]

PInf == [k |-> "pinf", n |-> 0, d |-> 1]

NInf == [k |-> "ninf", n |-> 0, d |-> 1]

Abs(i) == IF i < 0 THEN -i ELSE i

RECURSIVE Gcd(_, _)
Gcd(a, b) == IF b = 0 THEN a ELSE Gcd(b, a % b)

\* the rational n/d in lowest terms with a positive denominator (d # 0)
Fin(n, d) ==
  LET g == Gcd(Abs(n), Abs(d))
      s == IF d < 0 THEN -1 ELSE 1
  IN  [k |-> "fin", n |-> (s * n) \div g, d |-> (s * d) \div g]

Num(i) == Fin(i, 1)

IsNaN(a) == a.k = "nan"

IsInf(a) == a.k \in {"pinf", "ninf"}

IsFin(a) == a.k = "fin"

\* -1, 0, 1 for a non-NaN value
Sign(a) ==
  CASE a.k = "pinf" -> 1
    [] a.k = "ninf" -> -1
    [] OTHER -> IF a.n > 0 THEN 1 ELSE IF a.n < 0 THEN -1 ELSE 0

InfOf(s) == IF s > 0 THEN PInf ELSE NInf

FNeg(a) ==
  CASE a.k = "nan" -> NaN
    [] a.k = "pinf" -> NInf
    [] a.k = "ninf" -> PInf
    [] OTHER -> Fin(-a.n, a.d)

FAdd(a, b) ==
  IF IsNaN(a) \/ IsNaN(b) THEN NaN
  ELSE IF IsInf(a) /\ IsInf(b) THEN (IF a.k = b.k THEN a ELSE NaN)
  ELSE IF IsInf(a) THEN a
  ELSE IF IsInf(b) THEN b
  ELSE Fin(a.n * b.d + b.n * a.d, a.d * b.d)

FSub(a, b) == FAdd(a, FNeg(b))

FMul(a, b) ==
  IF IsNaN(a) \/ IsNaN(b) THEN NaN
  ELSE IF IsInf(a) \/ IsInf(b)
       THEN (IF Sign(a) * Sign(b) = 0 THEN NaN ELSE InfOf(Sign(a) * Sign(b)))
  ELSE Fin(a.n * b.n, a.d * b.d)

\* IEEE division: x/0 is +-inf for x # 0, 0/0 and inf/inf are NaN
FDiv(a, b) ==
  IF IsNaN(a) \/ IsNaN(b) THEN NaN
  ELSE IF IsInf(a) THEN (IF IsInf(b) THEN NaN
                         ELSE InfOf(Sign(a) * (IF Sign(b) < 0 THEN -1 ELSE 1)))
  ELSE IF IsInf(b) THEN Num(0)
  ELSE IF b.n = 0 THEN (IF a.n = 0 THEN NaN ELSE InfOf(Sign(a)))
  ELSE Fin(a.n * b.d, a.d * b.n)

\* a < b for non-NaN values
FLt(a, b) ==
  IF a.k = "ninf" THEN b.k # "ninf"
  ELSE IF a.k = "pinf" THEN FALSE
  ELSE IF b.k = "pinf" THEN TRUE
  ELSE IF b.k = "ninf" THEN FALSE
  ELSE a.n * b.d < b.n * a.d

FLe(a, b) == a = b \/ FLt(a, b)

-----------------------------------------------------------------------------
(* Sequences and tables *)

SeqToSet(s) == {s[i] : i \in 1..Len(s)}

MinOf(S) == CHOOSE x \in S : \A y \in S : x <= y

\* the elements of a set of days as an ascending sequence
RECURSIVE SortedSeq(_)
SortedSeq(S) ==
  IF S = {} THEN <<>>
  ELSE LET m == MinOf(S) IN <<m>> \o SortedSeq(S \ {m})

\* pd.DataFrame(): no rows, no columns
EmptyFrame == [index |-> <<>>, columns |-> <<>>, data |-> <<>>]

\* DataFrame.empty: some axis has length 0
IsEmpty(df) == Len(df.index) = 0 \/ Len(df.columns) = 0

Cell(df, c, d) == df.data[c][d]

\* positions of the rows of df whose cell in column c is not missing
ValidRows(df, c) == {i \in 1..Len(df.index) : ~IsNaN(Cell(df, c, df.index[i]))}

-----------------------------------------------------------------------------
(* Calendar Aligner: src/src/analytics/align.py *)

IsBusinessDay(d) == ((d + 3) % 7) < 5

\* date_range with the end date left out
date_range_open(start, end, bdays) ==
  SortedSeq({d \in start..(end - 1) : (~bdays) \/ IsBusinessDay(d)})

\* pd.date_range(start, end, freq="B" | "D")
date_range(start, end, bdays) ==
  SortedSeq({d \in start..end : (~bdays) \/ IsBusinessDay(d)})

\* DataFrame.reindex(idx): rows of idx, missing where the table has no such row
reindex(df, idx) ==
  [index |-> idx,
   columns |-> df.columns,
   data |-> [c \in SeqToSet(df.columns) |->
              [d \in SeqToSet(idx) |->
                IF d \in SeqToSet(df.index) THEN Cell(df, c, d) ELSE NaN]]]

\* the value column c carries into row i under forward fill: its own value,
\* or that of the nearest earlier row that is not missing
RECURSIVE FilledAt(_, _, _)
FilledAt(df, c, i) ==
  IF i = 0 THEN NaN
  ELSE IF ~IsNaN(Cell(df, c, df.index[i])) THEN Cell(df, c, df.index[i])
  ELSE FilledAt(df, c, i - 1)

PosOf(idx, d) == CHOOSE i \in 1..Len(idx) : idx[i] = d

\* the first value of column c in rows i..Len that is not missing
RECURSIVE BackFilledAt(_, _, _)
BackFilledAt(df, c, i) ==
  IF i > Len(df.index) THEN NaN
  ELSE IF ~IsNaN(Cell(df, c, df.index[i])) THEN Cell(df, c, df.index[i])
  ELSE BackFilledAt(df, c, i + 1)

\* a fill that also fills backward: ffill().bfill()
ffill_bfill(df) ==
  [df EXCEPT !.data =
     [c \in SeqToSet(df.columns) |->
       [d \in SeqToSet(df.index) |->
         LET v == FilledAt(df, c, PosOf(df.index, d))
         IN  IF IsNaN(v) THEN BackFilledAt(df, c, PosOf(df.index, d)) ELSE v]]]

\* DataFrame.ffill()
ffill(df) ==
  [df EXCEPT !.data =
     [c \in SeqToSet(df.columns) |->
       [d \in SeqToSet(df.index) |-> FilledAt(df, c, PosOf(df.index, d))]]]

align_panel(p, start, end, ff, bdays) ==
  IF IsEmpty(p) THEN p
  ELSE LET idx == date_range(start, end, bdays)
           aligned == reindex(p, idx)
       IN  IF ff THEN ffill(aligned) ELSE aligned


\* each cell over the cell one row up, without the minus one
pct_change_ratio(df, pad) ==
  LET src == IF pad THEN ffill(df) ELSE df
  IN  [df EXCEPT !.data =
        [c \in SeqToSet(df.columns) |->
          [d \in SeqToSet(df.index) |->
            LET i == PosOf(df.index, d)
            IN  IF i = 1 THEN NaN
                ELSE FDiv(Cell(src, c, d), Cell(src, c, df.index[i - 1]))]]]

\* DataFrame.pct_change(): each cell over the cell one row up, minus one; a
\* pandas older than 3.0 forward-fills the table first (fill_method="pad")
pct_change(df, pad) ==
  LET src == IF pad THEN ffill(df) ELSE df
  IN  [df EXCEPT !.data =
        [c \in SeqToSet(df.columns) |->
          [d \in SeqToSet(df.index) |->
            LET i == PosOf(df.index, d)
            IN  IF i = 1 THEN NaN
                ELSE FSub(FDiv(Cell(src, c, d), Cell(src, c, df.index[i - 1])),
                          Num(1))]]]

\* DataFrame.replace([inf, -inf], <missing>)
replace_inf(df) ==
  [df EXCEPT !.data =
     [c \in DOMAIN df.data |->
       [r \in DOMAIN df.data[c] |->
         IF IsInf(df.data[c][r]) THEN NaN ELSE df.data[c][r]]]]

\* dropna(how="any"): drop the rows in which some column is missing
dropna_any(df) ==
  LET keep == {d \in SeqToSet(df.index) :
                 \A c \in SeqToSet(df.columns) : ~IsNaN(Cell(df, c, d))}
  IN  [index |-> SelectSeq(df.index, LAMBDA d : d \in keep),
       columns |-> df.columns,
       data |-> [c \in SeqToSet(df.columns) |->
                  [d \in keep |-> Cell(df, c, d)]]]

\* DataFrame.dropna(how="all"): drop the rows in which every column is missing
dropna_all(df) ==
  LET keep == {d \in SeqToSet(df.index) :
                 \E c \in SeqToSet(df.columns) : ~IsNaN(Cell(df, c, d))}
  IN  [index |-> SelectSeq(df.index, LAMBDA d : d \in keep),
       columns |-> df.columns,
       data |-> [c \in SeqToSet(df.columns) |->
                  [d \in keep |-> Cell(df, c, d)]]]

compute_returns(p, pad) ==
  IF IsEmpty(p) THEN p
  ELSE dropna_all(replace_inf(pct_change(p, pad)))

-----------------------------------------------------------------------------
(* Transforms: src/src/analytics/transforms.py *)

\* a finite real whose magnitude the model does not compute (a square root,
\* a fractional power)
Irr == [k |-> "real", n |-> 0, d |-> 1]

\* the first value of column c that is not missing, NaN if there is none:
\* panel.ffill().bfill().iloc[0]
FirstValid(df, c) ==
  IF ValidRows(df, c) = {} THEN NaN
  ELSE Cell(df, c, df.index[MinOf(ValidRows(df, c))])

\* the panel over its first valid row, without the multiply(100)
normalize_base_1(p) ==
  IF IsEmpty(p) THEN p
  ELSE [p EXCEPT !.data =
         [c \in SeqToSet(p.columns) |->
           [d \in SeqToSet(p.index) |->
             FDiv(Cell(p, c, d), FirstValid(p, c))]]]

normalize_base_100(p) ==
  IF IsEmpty(p) THEN p
  ELSE [p EXCEPT !.data =
         [c \in SeqToSet(p.columns) |->
           [d \in SeqToSet(p.index) |->
             FMul(FDiv(Cell(p, c, d), FirstValid(p, c)), Num(100))]]]

\* the largest value of column c in rows 1..i, skipping missing cells
RECURSIVE RunMax(_, _, _)
RunMax(df, c, i) ==
  IF i = 0 THEN NaN
  ELSE LET prev == RunMax(df, c, i - 1)
           x == Cell(df, c, df.index[i])
       IN  IF IsNaN(x) THEN prev
           ELSE IF IsNaN(prev) THEN x
           ELSE IF FLt(prev, x) THEN x ELSE prev

\* DataFrame.cummax(): a missing cell stays missing
cummax(df) ==
  [df EXCEPT !.data =
     [c \in SeqToSet(df.columns) |->
       [d \in SeqToSet(df.index) |->
         IF IsNaN(Cell(df, c, d)) THEN NaN
         ELSE RunMax(df, c, PosOf(df.index, d))]]]

drawdown_from_prices(p) ==
  IF IsEmpty(p) THEN p
  ELSE LET rolling_max == cummax(p)
       IN  [p EXCEPT !.data =
             [c \in SeqToSet(p.columns) |->
               [d \in SeqToSet(p.index) |->
                 FSub(FDiv(Cell(p, c, d), Cell(rolling_max, c, d)), Num(1))]]]

\* rolling_volatility's default window
window == 20

\* rolling(window).std() * sqrt(annualization): defined only where the last
\* `window` rows of the column are all present
rolling_volatility(r) ==
  IF IsEmpty(r) THEN r
  ELSE [r EXCEPT !.data =
         [c \in SeqToSet(r.columns) |->
           [d \in SeqToSet(r.index) |->
             LET i == PosOf(r.index, d)
             IN  IF i >= window /\ (i - window + 1)..i \subseteq ValidRows(r, c)
                 THEN Irr ELSE NaN]]]

-----------------------------------------------------------------------------
(* Return/Metric Engine: src/src/analytics/metrics.py *)

SummaryColumns ==
  <<"Total Return %", "Annualized Return %", "Volatility %",
    "Max Drawdown %", "Best Day %", "Worst Day %">>

\* the non-missing cells of column c
ValidValues(df, c) == {Cell(df, c, df.index[i]) : i \in ValidRows(df, c)}

\* Series.min() / Series.max() of a column, skipping missing cells
ColMin(df, c) ==
  IF ValidRows(df, c) = {} THEN NaN
  ELSE CHOOSE x \in ValidValues(df, c) : \A y \in ValidValues(df, c) : FLe(x, y)

ColMax(df, c) ==
  IF ValidRows(df, c) = {} THEN NaN
  ELSE CHOOSE x \in ValidValues(df, c) : \A y \in ValidValues(df, c) : FLe(y, x)

\* Series.std(): the sample deviation needs two observations
ColStd(df, c) ==
  IF Cardinality(ValidRows(df, c)) < 2 THEN NaN
  ELSE IF Cardinality(ValidValues(df, c)) = 1 THEN Num(0)
  ELSE Irr

\* prices.iloc[-1] / prices.iloc[0] - 1, column by column: the panel's last
\* row over its first row
TotalReturn(p, c) ==
  FSub(FDiv(Cell(p, c, p.index[Len(p.index)]), Cell(p, c, p.index[1])), Num(1))

\* (1 + total_return) ** (1 / years) - 1 with years = n_days / 365.25 > 0 and
\* 1/years never an integer: a negative base gives NaN, the bases 0 and 1 are
\* fixed points, an infinite base gives +inf; any other base gives a finite
\* real (no price ratio of the model overflows the power)
Annualized(tr) ==
  LET base == FAdd(Num(1), tr)
  IN  IF IsNaN(base) THEN NaN
      ELSE IF IsInf(base) THEN PInf
      ELSE IF base.n < 0 THEN NaN
      ELSE IF base.n = 0 THEN Num(-1)
      ELSE IF base = Num(1) THEN Num(0)
      ELSE Irr

\* x * 100 (Irr stays a finite real)
Pct(x) == IF x = Irr THEN Irr ELSE FMul(x, Num(100))

\* the sort key of row r
KeyOf(df, col, r) == df.data[col][r]

\* insert row r behind every row whose key is at least r's: a stable
\* descending insertion
RECURSIVE InsertDesc(_, _, _, _)
InsertDesc(df, col, sorted, r) ==
  IF sorted = <<>> THEN <<r>>
  ELSE IF FLt(KeyOf(df, col, Head(sorted)), KeyOf(df, col, r))
       THEN <<r>> \o sorted
       ELSE <<Head(sorted)>> \o InsertDesc(df, col, Tail(sorted), r)

RECURSIVE SortDesc(_, _, _)
SortDesc(df, col, rows) ==
  IF rows = <<>> THEN <<>>
  ELSE InsertDesc(df, col, SortDesc(df, col, SubSeq(rows, 1, Len(rows) - 1)),
                  rows[Len(rows)])

\* DataFrame.sort_values(col, ascending=False): descending, ties in their
\* original order, rows with a missing key last in their original order
sort_values_desc(df, col) ==
  LET present == SelectSeq(df.index, LAMBDA r : ~IsNaN(KeyOf(df, col, r)))
      missing == SelectSeq(df.index, LAMBDA r : IsNaN(KeyOf(df, col, r)))
  IN  [df EXCEPT !.index = SortDesc(df, col, present) \o missing]

\* the table performance_summary builds before it replaces and sorts: one row
\* per column of prices (returns has the same columns)
summary_frame(p, r) ==
  LET dd == drawdown_from_prices(p)
  IN  [index |-> p.columns,
       columns |-> SummaryColumns,
       data |->
         [col \in SeqToSet(SummaryColumns) |->
           [c \in SeqToSet(p.columns) |->
             CASE col = "Total Return %" -> Pct(TotalReturn(p, c))
               [] col = "Annualized Return %" -> Pct(Annualized(TotalReturn(p, c)))
               [] col = "Volatility %" -> Pct(ColStd(r, c))
               [] col = "Max Drawdown %" -> Pct(ColMin(dd, c))
               [] col = "Best Day %" -> Pct(ColMax(r, c))
               [] col = "Worst Day %" -> Pct(ColMin(r, c))]]]

\* prices.iloc[-1] with the guard of lines 10-11 left out
performance_summary_raises_unguarded(p, r) == Len(p.index) = 0

\* whether performance_summary raises: prices.iloc[-1] and prices.iloc[0] raise
\* IndexError on a table without rows, and lines 10-11 return before them on an
\* empty table
performance_summary_raises(p, r) ==
  ~(IsEmpty(p) \/ IsEmpty(r)) /\ Len(p.index) = 0

\* performance_summary without its replace of the infinities
performance_summary_keep_inf(p, r) ==
  IF IsEmpty(p) \/ IsEmpty(r) THEN EmptyFrame
  ELSE sort_values_desc(summary_frame(p, r), "Total Return %")

performance_summary(p, r) ==
  IF IsEmpty(p) \/ IsEmpty(r) THEN EmptyFrame
  ELSE sort_values_desc(replace_inf(summary_frame(p, r)), "Total Return %")

\* the pairwise-complete rows of two columns
PairRows(r, a, b) == ValidRows(r, a) \cap ValidRows(r, b)

Varies(r, c, rows) == Cardinality({Cell(r, c, r.index[i]) : i \in rows}) > 1

\* DataFrame.corr(): Pearson over pairwise-complete rows; undefined without
\* two rows or with a constant column
correlation_matrix(r) ==
  IF IsEmpty(r) THEN EmptyFrame
  ELSE [index |-> r.columns,
        columns |-> r.columns,
        data |-> [a \in SeqToSet(r.columns) |->
                   [b \in SeqToSet(r.columns) |->
                     IF Varies(r, a, PairRows(r, a, b))
                        /\ Varies(r, b, PairRows(r, a, b))
                     THEN (IF a = b THEN Num(1) ELSE Irr)
                     ELSE NaN]]]

\* the predefined (proxy name, A, B) pairs, in the order the code tests them
SpreadPairs ==
  << [name |-> "US IG Spread Proxy (ret diff %) ",
      a |-> "US IG Corporate", b |-> "US Govt Bonds 7-10Y"],
     [name |-> "US HY Spread Proxy (ret diff %) ",
      a |-> "US HY Corporate", b |-> "US Govt Bonds 7-10Y"],
     [name |-> "EU IG Spread Proxy (ret diff %) ",
      a |-> "EU IG Corporate", b |-> "EU Govt Bonds 7-10Y"],
     [name |-> "EU HY Spread Proxy (ret diff %) ",
      a |-> "EU HY Corporate", b |-> "EU Govt Bonds 7-10Y"] >>

\* {A, B}.issubset(summary_df.index)
PairPresent(s, pr) == {pr.a, pr.b} \subseteq SeqToSet(s.index)

\* the difference taken the other way round
ProxyValueSwapped(s, pr) ==
  FSub(s.data["Total Return %"][pr.b], s.data["Total Return %"][pr.a])

\* summary_df.loc[A, "Total Return %"] - summary_df.loc[B, "Total Return %"]
ProxyValue(s, pr) ==
  FSub(s.data["Total Return %"][pr.a], s.data["Total Return %"][pr.b])

compute_spread_proxies(s) ==
  IF IsEmpty(s) THEN EmptyFrame
  ELSE LET emitted == SelectSeq(SpreadPairs, LAMBDA pr : PairPresent(s, pr))
           names == [i \in 1..Len(emitted) |-> emitted[i].name]
       IN  IF emitted = <<>> THEN EmptyFrame
           ELSE [index |-> names,
                 columns |-> <<"Value">>,
                 data |->
                   [col \in {"Value"} |->
                     [nm \in SeqToSet(names) |->
                       LET pr == CHOOSE q \in SeqToSet(emitted) : q.name = nm
                       IN  ProxyValue(s, pr)]]]

-----------------------------------------------------------------------------
(* The data source behind yf.download *)

\* Optional[T]: None is the empty sequence, a value v is <<v>>
None == <<>>

Some(v) == <<v>>

\* a response of yf.download: it raises, returns None, or returns a table
\* (multi: its columns are two-level (field, identifier) pairs, of which the
\* model keeps the field)
Raise == [status |-> "raise", multi |-> FALSE, frame |-> EmptyFrame]

NoneResp == [status |-> "none", multi |-> FALSE, frame |-> EmptyFrame]

Table(multi, frame) == [status |-> "ok", multi |-> multi, frame |-> frame]

\* yf.download(tickers=t, start=a, end=b + 1 day): the rows of t's history
\* dated a..b
download(w, t, a, b) ==
  IF w[t].status # "ok" THEN w[t]
  ELSE LET h == w[t].frame
           keep == {d \in SeqToSet(h.index) : a <= d /\ d <= b}
       IN  Table(w[t].multi,
                 [index |-> SelectSeq(h.index, LAMBDA d : d \in keep),
                  columns |-> h.columns,
                  data |-> [f \in SeqToSet(h.columns) |->
                             [d \in keep |-> h.data[f][d]]]])

-----------------------------------------------------------------------------
(* Ticker Resolver: src/src/ticker_resolver.py *)

\* _probe_ticker's default lead
probe_days == 45

_probe_ticker(w, ticker, start, end) ==
  download(w, ticker, start - probe_days, end)

\* [x for x in candidates if x]
NonEmpty(candidates) == SelectSeq(candidates, LAMBDA x : x # "")

\* the loop without its try/except: a probe that raises leaves the loop
RECURSIVE ProbeLoopNoCatch(_, _, _, _, _, _, _)
ProbeLoopNoCatch(w, cands, i, attempted, probed, start, end) ==
  IF i > Len(cands)
  THEN [ticker |-> None, attempted |-> attempted, probed |-> probed,
        raised |-> FALSE]
  ELSE LET ticker == cands[i]
           att == Append(attempted, ticker)
           prb == Append(probed, ticker)
           data == _probe_ticker(w, ticker, start, end)
       IN  IF data.status = "raise"
           THEN [ticker |-> None, attempted |-> att, probed |-> prb,
                 raised |-> TRUE]
           ELSE IF data.status = "none" \/ IsEmpty(data.frame)
           THEN ProbeLoopNoCatch(w, cands, i + 1, att, prb, start, end)
           ELSE [ticker |-> Some(ticker), attempted |-> att, probed |-> prb,
                 raised |-> FALSE]

\* the loop without its break: every candidate is probed and the last one that
\* answers is selected
RECURSIVE ProbeLoopNoBreak(_, _, _, _, _, _, _)
ProbeLoopNoBreak(w, cands, i, attempted, probed, start, end) ==
  IF i > Len(cands)
  THEN [ticker |-> None, attempted |-> attempted, probed |-> probed,
        raised |-> FALSE]
  ELSE LET ticker == cands[i]
           att == Append(attempted, ticker)
           prb == Append(probed, ticker)
           data == _probe_ticker(w, ticker, start, end)
           rest == ProbeLoopNoBreak(w, cands, i + 1, att, prb, start, end)
       IN  IF data.status = "raise" \/ data.status = "none"
              \/ IsEmpty(data.frame) \/ rest.ticker # None
           THEN rest
           ELSE [rest EXCEPT !.ticker = Some(ticker)]

\* the loop over one label's candidates from position i on; raised reports an
\* exception leaving the loop
\* (probed lists the tickers handed to _probe_ticker so far)
RECURSIVE ProbeLoop(_, _, _, _, _, _, _)
ProbeLoop(w, cands, i, attempted, probed, start, end) ==
  IF i > Len(cands)
  THEN [ticker |-> None, attempted |-> attempted, probed |-> probed,
        raised |-> FALSE]
  ELSE LET ticker == cands[i]
           att == Append(attempted, ticker)
           prb == Append(probed, ticker)
           data == _probe_ticker(w, ticker, start, end)
       IN  IF data.status = "raise"
           THEN ProbeLoop(w, cands, i + 1, att, prb, start, end)
           ELSE IF data.status = "none" \/ IsEmpty(data.frame)
           THEN ProbeLoop(w, cands, i + 1, att, prb, start, end)
           ELSE [ticker |-> Some(ticker), attempted |-> att, probed |-> prb,
                 raised |-> FALSE]

\* one pass of resolve_tickers' loop over the labels
resolve_label(w, label, candidates, start, end) ==
  LET r == ProbeLoop(w, NonEmpty(candidates), 1, <<>>, <<>>, start, end)
  IN  [label |-> label, ticker |-> r.ticker, attempted |-> r.attempted,
       probed |-> r.probed, raised |-> r.raised]

-----------------------------------------------------------------------------
(* Price Panel Fetcher: src/src/data_sources/yfinance_client.py *)

\* pd.to_numeric(s, errors="coerce").dropna(): a cell that is no number
\* becomes missing, missing cells are dropped
to_numeric_dropna(col) ==
  LET keep == {d \in DOMAIN col : col[d].k # "str" /\ ~IsNaN(col[d])}
  IN  [d \in keep |-> col[d]]

NoneIfEmpty(s) == IF DOMAIN s = {} THEN None ELSE Some(s)

\* the order with Adj Close first whatever the preference
FieldOrderAdjFirst(prefer_adj) == <<"Adj Close", "Close">>

FieldOrder(prefer_adj) ==
  IF prefer_adj THEN <<"Adj Close", "Close">> ELSE <<"Close", "Adj Close">>

_extract_price_series(data, prefer_adj) ==
  IF data.status = "none" \/ IsEmpty(data.frame) THEN None
  ELSE LET f == data.frame
           present == SelectSeq(FieldOrder(prefer_adj),
                                LAMBDA c : c \in SeqToSet(f.columns))
       IN  IF present # <<>>
           THEN NoneIfEmpty(to_numeric_dropna(f.data[present[1]]))
           ELSE IF Len(f.columns) = 1
           THEN NoneIfEmpty(to_numeric_dropna(f.data[f.columns[1]]))
           ELSE None

\* one pass of fetch_prices' loop over the resolutions: the label's series, or
\* None when the label fails (data: what yf.download does on this call)
fetch_label(info, data, prefer_adj) ==
  IF info.ticker = None THEN None
  ELSE IF data.status = "raise" THEN None
  ELSE _extract_price_series(data, prefer_adj)

\* the rank of a label in Python's string order
LabelOrder ==
  <<"EU Govt Bonds 7-10Y", "EU HY Corporate", "EU IG Corporate",
    "US Govt Bonds 7-10Y", "US HY Corporate", "US IG Corporate", "X", "Y">>

Rank(label) == CHOOSE i \in 1..Len(LabelOrder) : LabelOrder[i] = label

\* sorted(set(labels))
sorted_set(labels) ==
  LET ranks == SortedSeq({Rank(labels[i]) : i \in 1..Len(labels)})
  IN  [i \in 1..Len(ranks) |-> LabelOrder[ranks[i]]]

\* pd.concat(series_map, axis=1).sort_index()
concat(series_map) ==
  LET days == UNION {DOMAIN series_map[i].series : i \in 1..Len(series_map)}
      cols == [i \in 1..Len(series_map) |-> series_map[i].label]
  IN  [index |-> SortedSeq(days),
       columns |-> cols,
       data |-> [c \in SeqToSet(cols) |->
                  LET s == (CHOOSE e \in SeqToSet(series_map) : e.label = c).series
                  IN  [d \in days |-> IF d \in DOMAIN s THEN s[d] ELSE NaN]]]

\* the return statements with the failed labels in the order they failed
fetch_result_unsorted(st) ==
  [prices |-> IF st.series_map = <<>> THEN EmptyFrame ELSE concat(st.series_map),
   failed |-> st.failed_labels,
   resolved |-> st.resolved_map]

\* fetch_prices' return statements
fetch_result(st) ==
  [prices |-> IF st.series_map = <<>> THEN EmptyFrame ELSE concat(st.series_map),
   failed |-> sorted_set(st.failed_labels),
   resolved |-> st.resolved_map]

-----------------------------------------------------------------------------
(* The pipeline of app.py, lines 82-101 *)

EmptyFetchState ==
  [series_map |-> <<>>, failed_labels |-> <<>>, resolved_map |-> <<>>]

EmptyResult == [prices |-> EmptyFrame, failed |-> <<>>, resolved |-> <<>>]

\* fetch_prices, lines 28-31
FetchStart ==
  /\ pc = "fetch_prices"
  /\ IF label_to_ticker = <<>>
     THEN /\ price_res' = EmptyResult
          /\ pc' = "align_panel"
     ELSE /\ price_res' = price_res
          /\ pc' = "resolve_tickers"
  /\ UNCHANGED <<fred_vars, world, label_to_ticker, start_date, end_date, prefer_adj_close,
                 forward_fill, business_days, pad_fill, probe_log, resolutions,
                 fetch_st, prices, returns, summary, corr, drawdowns,
                 normalized, roll_vol, spread_proxy>>

\* resolve_tickers, lines 32-45: the next label of the mapping
ResolveLabel ==
  /\ pc = "resolve_tickers"
  /\ LET i == Len(resolutions) + 1
         e == label_to_ticker[i]
         r == resolve_label(world, e.label, e.candidates, start_date, end_date)
     IN  IF r.raised
         THEN /\ pc' = "raised"
              /\ UNCHANGED <<resolutions, probe_log>>
         ELSE /\ resolutions' =
                   Append(resolutions, [label |-> r.label, ticker |-> r.ticker,
                                        attempted |-> r.attempted])
              /\ probe_log' =
                   probe_log \o [j \in 1..Len(r.probed) |->
                                  [label |-> e.label, ticker |-> r.probed[j]]]
              /\ pc' = IF i = Len(label_to_ticker) THEN "download" ELSE pc
  /\ UNCHANGED <<fred_vars, world, label_to_ticker, start_date, end_date, prefer_adj_close,
                 forward_fill, business_days, pad_fill, fetch_st, price_res,
                 prices, returns, summary, corr, drawdowns, normalized,
                 roll_vol, spread_proxy>>

\* fetch_prices, lines 36-56: the next resolution
DownloadLabel ==
  /\ pc = "download"
  /\ LET i == Len(fetch_st.series_map) + Len(fetch_st.failed_labels) + 1
         info == resolutions[i]
     IN  \E transport_fails \in BOOLEAN :
         LET data == IF info.ticker = None \/ transport_fails THEN Raise
                     ELSE download(world, info.ticker[1], start_date, end_date)
             extracted == fetch_label(info, data, prefer_adj_close)
         IN
         /\ fetch_st' =
              IF extracted = None
              THEN [fetch_st EXCEPT
                      !.failed_labels = Append(@, info.label)]
              ELSE [fetch_st EXCEPT
                      !.series_map =
                         Append(@, [label |-> info.label,
                                    series |-> extracted[1]]),
                      !.resolved_map =
                         Append(@, [label |-> info.label,
                                    ticker |-> info.ticker[1]])]
         /\ pc' = IF i = Len(resolutions) THEN "assemble" ELSE pc
  /\ UNCHANGED <<fred_vars, world, label_to_ticker, start_date, end_date, prefer_adj_close,
                 forward_fill, business_days, pad_fill, probe_log, resolutions,
                 price_res, prices, returns, summary, corr, drawdowns,
                 normalized, roll_vol, spread_proxy>>

\* fetch_prices, lines 58-63
Assemble ==
  /\ pc = "assemble"
  /\ price_res' = fetch_result(fetch_st)
  /\ pc' = "align_panel"
  /\ UNCHANGED <<fred_vars, world, label_to_ticker, start_date, end_date, prefer_adj_close,
                 forward_fill, business_days, pad_fill, probe_log, resolutions,
                 fetch_st, prices, returns, summary, corr, drawdowns,
                 normalized, roll_vol, spread_proxy>>

\* app.py line 83
Align ==
  /\ pc = "align_panel"
  /\ prices' = align_panel(price_res.prices, start_date, end_date,
                           forward_fill, business_days)
  /\ pc' = "compute_returns"
  /\ UNCHANGED <<fred_vars, world, label_to_ticker, start_date, end_date, prefer_adj_close,
                 forward_fill, business_days, pad_fill, probe_log, resolutions,
                 fetch_st, price_res, returns, summary, corr, drawdowns,
                 normalized, roll_vol, spread_proxy>>

\* app.py line 84
Returns ==
  /\ pc = "compute_returns"
  /\ returns' = compute_returns(prices, pad_fill)
  /\ pc' = "performance_summary"
  /\ UNCHANGED <<fred_vars, world, label_to_ticker, start_date, end_date, prefer_adj_close,
                 forward_fill, business_days, pad_fill, probe_log, resolutions,
                 fetch_st, price_res, prices, summary, corr, drawdowns,
                 normalized, roll_vol, spread_proxy>>

\* app.py line 85
Summary ==
  /\ pc = "performance_summary"
  /\ IF performance_summary_raises(prices, returns)
     THEN /\ pc' = "raised"
          /\ summary' = summary
     ELSE /\ summary' = performance_summary(prices, returns)
          /\ pc' = "correlation_matrix"
  /\ UNCHANGED <<fred_vars, world, label_to_ticker, start_date, end_date, prefer_adj_close,
                 forward_fill, business_days, pad_fill, probe_log, resolutions,
                 fetch_st, price_res, prices, returns, corr, drawdowns,
                 normalized, roll_vol, spread_proxy>>

\* app.py lines 86-89
Transforms ==
  /\ pc = "correlation_matrix"
  /\ corr' = correlation_matrix(returns)
  /\ drawdowns' = drawdown_from_prices(prices)
  /\ normalized' = normalize_base_100(prices)
  /\ roll_vol' = rolling_volatility(returns)
  /\ pc' = "compute_spread_proxies"
  /\ UNCHANGED <<fred_vars, world, label_to_ticker, start_date, end_date, prefer_adj_close,
                 forward_fill, business_days, pad_fill, probe_log, resolutions,
                 fetch_st, price_res, prices, returns, summary, spread_proxy>>

\* app.py line 101
Spread ==
  /\ pc = "compute_spread_proxies"
  /\ spread_proxy' = compute_spread_proxies(summary)
  /\ pc' = "done"
  /\ UNCHANGED <<fred_vars, world, label_to_ticker, start_date, end_date, prefer_adj_close,
                 forward_fill, business_days, pad_fill, probe_log, resolutions,
                 fetch_st, price_res, prices, returns, summary, corr, drawdowns,
                 normalized, roll_vol>>

-----------------------------------------------------------------------------
(* Inputs *)

Tickers == {"T1", "T2", "T3"}

\* the date windows the sidebar lets through (app.py line 52: start < end)
Windows == {<<s, e>> \in (0..MaxDay) \X (0..MaxDay) : s < e}

\* the sets of days a raw series can be observed on
ObsSets(D) == {S \in SUBSET D : S # {} /\ Cardinality(S) <= MaxObs}

\* a data source in which every download raises
DeadWorld == [t \in Tickers |-> Raise]

\* no macro series selected, no credential, nothing fetched
FredIdle ==
  /\ fred_mapping = <<>>
  /\ api_key = None
  /\ fred_installed = TRUE
  /\ fred_world = <<>>
  /\ fred_log = <<>>
  /\ yields = EmptyFrame

\* the state in which app.py reaches stage pc0 with the given inputs
InitWith(pc0, W, M, Win, FF, BD, PA, PAD, P) ==
  /\ pc = pc0
  /\ world \in W
  /\ label_to_ticker \in M
  /\ \E win \in Win : start_date = win[1] /\ end_date = win[2]
  /\ forward_fill \in FF
  /\ business_days \in BD
  /\ prefer_adj_close \in PA
  /\ pad_fill \in PAD
  /\ probe_log = <<>>
  /\ resolutions = <<>>
  /\ fetch_st = EmptyFetchState
  /\ \E p \in P : price_res = [EmptyResult EXCEPT !.prices = p]
  /\ prices = EmptyFrame
  /\ returns = EmptyFrame
  /\ summary = EmptyFrame
  /\ corr = EmptyFrame
  /\ drawdowns = EmptyFrame
  /\ normalized = EmptyFrame
  /\ roll_vol = EmptyFrame
  /\ spread_proxy = EmptyFrame

\* the panels pd.concat builds from one series per label, the series of
\* label l drawn from S[l]
PanelsOf(labels, S) ==
  {concat([i \in 1..Len(labels) |->
            [label |-> labels[i], series |-> f[labels[i]]]]) :
     f \in {g \in [SeqToSet(labels) -> UNION {S[l] : l \in SeqToSet(labels)}] :
              \A l \in SeqToSet(labels) : g[l] \in S[l]}}

-----------------------------------------------------------------------------
(* align_panel on its own: any window, both calendars, raw series observed  *)
(* on any days                                                             *)

Base(label) == IF label = "X" THEN 100 ELSE 200

\* the series of a label observed on the days S, each day's price distinct
DatedSeries(label) ==
  {[d \in S |-> Num(Base(label) + d)] : S \in ObsSets(0..MaxDay)}

AlignPanels ==
  {EmptyFrame}
    \cup PanelsOf(<<"X">>, [l \in {"X"} |-> DatedSeries(l)])
    \cup PanelsOf(<<"X", "Y">>, [l \in {"X", "Y"} |-> DatedSeries(l)])

InitAlign ==
  /\ FredIdle
  /\ InitWith("align_panel", {DeadWorld}, {<<>>}, Windows, BOOLEAN, BOOLEAN,
           {TRUE}, {TRUE}, AlignPanels)

SpecAlign == InitAlign /\ [][Align]_vars


-----------------------------------------------------------------------------
(* align_panel, compute_returns and performance_summary on panels whose     *)
(* prices include a zero and whose columns start late, end early or have   *)
(* gaps                                                                    *)

\* the windows that leave out as many of the model's days at their start as at
\* their end
MetricWindows == {w \in Windows : w[1] = MaxDay - w[2]}

BusinessDays == {d \in 0..MaxDay : IsBusinessDay(d)}

PricesOf(label) ==
  IF label = "X" THEN {Num(0), Num(100), Num(110)} ELSE {Num(100)}

\* the series of a label observed on any business days, at any of its prices
PricedSeries(label) ==
  UNION {[S -> PricesOf(label)] : S \in (SUBSET BusinessDays) \ {{}}}

MetricPanels ==
  PanelsOf(<<"X">>, [l \in {"X"} |-> PricedSeries(l)])
    \cup PanelsOf(<<"X", "Y">>, [l \in {"X", "Y"} |-> PricedSeries(l)])

InitMetrics ==
  /\ FredIdle
  /\ InitWith("align_panel", {DeadWorld}, {<<>>}, MetricWindows, BOOLEAN, {TRUE},
           {TRUE}, BOOLEAN, MetricPanels)

NextMetrics == Align \/ Returns \/ Summary

SpecMetrics == InitMetrics /\ [][NextMetrics]_vars

-----------------------------------------------------------------------------
(* resolve_tickers and fetch_prices on their own: any data source, candidate *)
(* lists with fallbacks and empty entries, two labels in either order       *)

TickerBase(t) == IF t = "T1" THEN 100 ELSE IF t = "T2" THEN 200 ELSE 300

\* a raw table of t's prices on the given days, as yf.download(auto_adjust=
\* False) lays it out for one ticker
History(t, days) ==
  Table(FALSE,
        [index |-> SortedSeq(days),
         columns |-> <<"Adj Close", "Close">>,
         data |-> [f \in {"Adj Close", "Close"} |->
                    [d \in days |->
                      IF f = "Close" THEN Num(TickerBase(t) + d)
                      ELSE Num(TickerBase(t) + d - 1)]]])

\* what a ticker may answer: an error, None, no rows at all, rows only in the
\* lead before the window, rows inside the window
FetchResponses(t) ==
  {Raise, NoneResp, History(t, {}), History(t, {-1}), History(t, {0, 1})}

FetchWorlds ==
  {w \in [Tickers -> UNION {FetchResponses(t) : t \in Tickers}] :
     \A t \in Tickers : w[t] \in FetchResponses(t)}

\* the candidate lists of at most MaxCands entries, none repeated, an entry
\* being a ticker or the empty string
CandidateLists ==
  UNION {{c \in [1..n -> Tickers \cup {""}] :
            \A i, j \in 1..n : c[i] = c[j] => i = j} : n \in 0..MaxCands}

FetchMappings ==
  {<<>>}
    \cup {<<[label |-> "X", candidates |-> c]>> : c \in CandidateLists}
    \cup {<<[label |-> "X", candidates |-> c],
            [label |-> "Y", candidates |-> <<"T3">>]>> : c \in CandidateLists}
    \cup {<<[label |-> "Y", candidates |-> <<"T3">>],
            [label |-> "X", candidates |-> c]>> : c \in CandidateLists}

InitFetch ==
  /\ FredIdle
  /\ InitWith("fetch_prices", FetchWorlds, FetchMappings, {<<0, MaxDay>>},
           {TRUE}, {TRUE}, {TRUE}, {TRUE}, {EmptyFrame})

NextFetch == FetchStart \/ ResolveLabel \/ DownloadLabel \/ Assemble

SpecFetch == InitFetch /\ [][NextFetch]_vars

-----------------------------------------------------------------------------
(* The analytics chain on panels of the credit and government bond labels   *)

SpreadLabels ==
  <<"EU Govt Bonds 7-10Y", "EU HY Corporate", "EU IG Corporate",
    "US Govt Bonds 7-10Y", "US HY Corporate", "US IG Corporate", "X">>

\* most columns of a panel of these labels
MaxCols == 3

\* a flat series, a rising series, and a series that starts after the window
SpreadSeries ==
  {[d \in {0, MaxDay} |-> Num(100)],
   [d \in {0, MaxDay} |-> IF d = 0 THEN Num(100) ELSE Num(110)],
   [d \in {MaxDay} |-> Num(100)]}

SpreadPanels ==
  UNION {PanelsOf(SelectSeq(SpreadLabels, LAMBDA l : l \in L),
                  [l \in L |-> SpreadSeries]) :
           L \in {K \in SUBSET SeqToSet(SpreadLabels) :
                    K # {} /\ Cardinality(K) <= MaxCols}}

InitSpread ==
  /\ FredIdle
  /\ InitWith("align_panel", {DeadWorld}, {<<>>}, {<<0, MaxDay>>}, {TRUE}, {TRUE},
           {TRUE}, {TRUE}, SpreadPanels)

NextAnalytics == Align \/ Returns \/ Summary \/ Transforms \/ Spread

SpecSpread == InitSpread /\ [][NextAnalytics]_vars

-----------------------------------------------------------------------------
(* The whole pipeline, from the universe selection on *)

PipelineResponses(t) ==
  {Raise, History(t, {1}), History(t, BusinessDays)}

PipelineWorlds ==
  {w \in [Tickers -> UNION {PipelineResponses(t) : t \in Tickers}] :
     \A t \in Tickers : w[t] \in PipelineResponses(t)}

PipelineMappings ==
  {<<>>,
   <<[label |-> "X", candidates |-> <<"T1">>]>>,
   <<[label |-> "Y", candidates |-> <<"T1", "T2">>],
     [label |-> "X", candidates |-> <<"T3">>]>>}

Init ==
  /\ FredIdle
  /\ InitWith("fetch_prices", PipelineWorlds, PipelineMappings, MetricWindows,
           BOOLEAN, {TRUE}, BOOLEAN, BOOLEAN, {EmptyFrame})

Next ==
  \/ FetchStart
  \/ ResolveLabel
  \/ DownloadLabel
  \/ Assemble
  \/ Align
  \/ Returns
  \/ Summary
  \/ Transforms
  \/ Spread

Spec == Init /\ [][Next]_vars

-----------------------------------------------------------------------------
(* Properties *)

\* the table's index is the date grid of the window: every business day (every
\* day for the calendar kind) from start_date to end_date, once, ascending
IsGridIndex(df) ==
  /\ \A i \in 1..(Len(df.index) - 1) : df.index[i] < df.index[i + 1]
  /\ SeqToSet(df.index) =
       {d \in start_date..end_date : (~business_days) \/ IsBusinessDay(d)}

\* C4 as stated: after align_panel the index of the result is the date grid of
\* the window, whatever panel went in
C4_IndexIsGrid == pc = "compute_returns" => IsGridIndex(prices)

\* C4 amended: after align_panel on a non-empty panel the index of the result
\* is exactly the date grid of the window (an empty panel is returned as it is)
C4_IndexIsGridNonEmpty ==
  (pc = "compute_returns" /\ ~IsEmpty(price_res.prices)) => IsGridIndex(prices)

\* align_panel has run, under the business calendar, on a window that spans
\* the weekend and a panel that has a row outside the grid
C4_Witness ==
  /\ pc = "compute_returns"
  /\ ~IsEmpty(price_res.prices)
  /\ business_days
  /\ start_date <= 1 /\ end_date >= 4
  /\ \E d \in SeqToSet(price_res.prices.index) : d \notin SeqToSet(prices.index)
  /\ \E d \in SeqToSet(prices.index) : d \notin SeqToSet(price_res.prices.index)

\* the raw panel has an observation of column c on day d
Observed(c, d) ==
  /\ d \in SeqToSet(price_res.prices.index)
  /\ ~IsNaN(Cell(price_res.prices, c, d))

\* C5: in align_panel's result a cell before the column's first observed grid
\* date is missing, with or without forward fill; a populated cell holds a
\* value observed for its own column on that or an earlier grid date; and
\* without forward fill a cell is populated only if its column is observed on
\* exactly that date
C5_NoBackwardFill ==
  pc = "compute_returns" =>
    \A c \in SeqToSet(prices.columns) : \A d \in SeqToSet(prices.index) :
      /\ (\A g \in SeqToSet(prices.index) : g <= d => ~Observed(c, g))
           => IsNaN(Cell(prices, c, d))
      /\ ~IsNaN(Cell(prices, c, d))
           => \E g \in SeqToSet(prices.index) :
                /\ g <= d
                /\ Observed(c, g)
                /\ Cell(prices, c, d) = Cell(price_res.prices, c, g)
      /\ (~forward_fill /\ ~IsNaN(Cell(prices, c, d))) => Observed(c, d)

\* forward fill has run on a column with a leading gap, a first observation
\* and a later date filled from it, beside a second column observed earlier
C5_Witness ==
  /\ pc = "compute_returns"
  /\ forward_fill
  /\ \E c \in SeqToSet(prices.columns) :
       \E d1, d2, d3 \in SeqToSet(prices.index) :
         /\ d1 < d2 /\ d2 < d3
         /\ IsNaN(Cell(prices, c, d1))
         /\ Observed(c, d2)
         /\ ~Observed(c, d3) /\ ~IsNaN(Cell(prices, c, d3))
         /\ \E b \in SeqToSet(prices.columns) : b # c /\ Observed(b, d1)


\* the last value of column c that is not missing
LastValid(df, c) ==
  Cell(df, c, df.index[CHOOSE i \in ValidRows(df, c) :
                         \A j \in ValidRows(df, c) : j <= i])

\* (last valid observation / first valid observation - 1) * 100 of column c
ValidTotalReturnPct(df, c) ==
  IF ValidRows(df, c) = {} THEN NaN
  ELSE FMul(FSub(FDiv(LastValid(df, c), FirstValid(df, c)), Num(1)), Num(100))

\* C6: in a non-empty performance summary the Total Return % of every column is
\* (last valid observation / first valid observation - 1) * 100 over the
\* column's own valid observations, wherever that figure is finite
C6_TotalReturnOverValid ==
  (pc = "correlation_matrix" /\ ~IsEmpty(summary)) =>
    \A c \in SeqToSet(prices.columns) :
      IsFin(ValidTotalReturnPct(prices, c)) =>
        summary.data["Total Return %"][c] = ValidTotalReturnPct(prices, c)

\* C7: for non-empty prices and returns the summary has exactly one row per
\* column of the price panel, its rows are ordered by Total Return %
\* non-increasing with the missing ones last, and no cell of it is infinite
C7_SummaryRows ==
  (pc = "correlation_matrix" /\ ~IsEmpty(prices) /\ ~IsEmpty(returns)) =>
    /\ Len(summary.index) = Len(prices.columns)
    /\ SeqToSet(summary.index) = SeqToSet(prices.columns)
    /\ \A i, j \in 1..Len(summary.index) :
         i < j =>
           LET a == summary.data["Total Return %"][summary.index[i]]
               b == summary.data["Total Return %"][summary.index[j]]
           IN  /\ IsNaN(a) => IsNaN(b)
               /\ (~IsNaN(a) /\ ~IsNaN(b)) => FLe(b, a)
    /\ \A col \in SeqToSet(summary.columns) : \A r \in SeqToSet(summary.index) :
         ~IsInf(summary.data[col][r])

\* a summary of two assets in which the first column's total return is
\* infinite before the replace (its first price is zero), so that its row
\* is kept, holds a missing total return and is sorted behind the other one
C7_Witness ==
  /\ pc = "correlation_matrix"
  /\ ~IsEmpty(prices) /\ ~IsEmpty(returns)
  /\ prices.columns = <<"X", "Y">>
  /\ summary.index = <<"Y", "X">>
  /\ IsInf(TotalReturn(prices, "X"))
  /\ IsNaN(summary.data["Total Return %"]["X"])
  /\ IsFin(summary.data["Total Return %"]["Y"])

\* the step of column c into the row dated d, before compute_returns cleans it
RawReturn(c, d) == Cell(pct_change(prices, pad_fill), c, d)

\* C8: for a non-empty aligned panel the result of compute_returns holds no
\* infinite cell and no row that is missing in every column, lacks the
\* panel's first date, and keeps every date on which some column has a finite
\* step, with that row's other cells missing
C8_ReturnsClean ==
  (pc = "performance_summary" /\ ~IsEmpty(prices)) =>
    /\ returns.columns = prices.columns
    /\ \A c \in SeqToSet(returns.columns) : \A d \in SeqToSet(returns.index) :
         ~IsInf(Cell(returns, c, d))
    /\ \A d \in SeqToSet(returns.index) :
         \E c \in SeqToSet(returns.columns) : ~IsNaN(Cell(returns, c, d))
    /\ prices.index[1] \notin SeqToSet(returns.index)
    /\ \A d \in SeqToSet(prices.index) :
         (\E c \in SeqToSet(prices.columns) : IsFin(RawReturn(c, d))) =>
           /\ d \in SeqToSet(returns.index)
           /\ \A c \in SeqToSet(prices.columns) :
                Cell(returns, c, d) =
                  IF IsFin(RawReturn(c, d)) THEN RawReturn(c, d) ELSE NaN

\* compute_returns has run on a panel in which one column steps up from a
\* zero price on a date on which the other column has a finite return: the
\* date is kept with the first column missing; and an earlier date is dropped
C8_Witness ==
  /\ pc = "performance_summary"
  /\ ~IsEmpty(prices)
  /\ \E d \in SeqToSet(returns.index) :
       /\ IsInf(RawReturn("X", d))
       /\ IsNaN(Cell(returns, "X", d))
       /\ IsFin(Cell(returns, "Y", d))
  /\ Len(returns.index) < Len(prices.index) - 1


\* a probe of ticker t answers: its download over the window widened by the
\* lead neither raises nor comes back None or without rows
ProbeAnswers(t) ==
  /\ world[t].status = "ok"
  /\ world[t].frame.columns # <<>>
  /\ \E d \in SeqToSet(world[t].frame.index) :
       start_date - probe_days <= d /\ d <= end_date

\* the candidates of the i-th label that are not the empty string
CandidatesOf(i) ==
  SelectSeq(label_to_ticker[i].candidates, LAMBDA x : x # "")

\* the positions of the i-th label's candidates whose probe answers
Answering(i) == {k \in 1..Len(CandidatesOf(i)) : ProbeAnswers(CandidatesOf(i)[k])}

\* the tickers probed for a label, in call order
ProbedFor(label) ==
  LET calls == SelectSeq(probe_log, LAMBDA c : c.label = label)
  IN  [j \in 1..Len(calls) |-> calls[j].ticker]

\* C1: the resolved ticker of a label is its first non-empty candidate whose
\* probe answers; attempted is the candidates from the first up to and
\* including that one, in order; and exactly those were probed, none after it
C1_FirstAnswering ==
  \A i \in 1..Len(resolutions) :
    /\ resolutions[i].label = label_to_ticker[i].label
    /\ Answering(i) # {} =>
         LET first == MinOf(Answering(i))
         IN  /\ resolutions[i].ticker = <<CandidatesOf(i)[first]>>
             /\ resolutions[i].attempted = SubSeq(CandidatesOf(i), 1, first)
             /\ ProbedFor(resolutions[i].label) = SubSeq(CandidatesOf(i), 1, first)

\* three candidates of which only the third answers: it is selected and all
\* three are recorded as attempted
C1_Witness ==
  \E i \in 1..Len(resolutions) :
    /\ Len(CandidatesOf(i)) = 3
    /\ Answering(i) = {3}
    /\ resolutions[i].ticker = <<CandidatesOf(i)[3]>>
    /\ Len(resolutions[i].attempted) = 3

\* C2: no probe makes resolve_tickers raise; once it has returned, every label
\* has its entry; a label none of whose candidates answers has an absent
\* ticker and all its non-empty candidates as attempted; a label with an
\* answering candidate is resolved whatever happened to the labels before it
C2_ProbeFailuresAbsorbed ==
  /\ pc # "raised"
  /\ pc \notin {"fetch_prices", "resolve_tickers"} =>
       Len(resolutions) = Len(label_to_ticker)
  /\ \A i \in 1..Len(resolutions) :
       /\ resolutions[i].label = label_to_ticker[i].label
       /\ Answering(i) = {} =>
            /\ resolutions[i].ticker = None
            /\ resolutions[i].attempted = CandidatesOf(i)
       /\ Answering(i) # {} => resolutions[i].ticker # None

\* resolve_tickers has returned for two labels: the first, with an empty
\* entry, a candidate whose probe raises and one whose probe comes back None
\* or without rows, is left unresolved; the second is resolved
C2_Witness ==
  /\ pc = "download"
  /\ Len(resolutions) = 2
  /\ resolutions[1].ticker = None
  /\ Len(resolutions[1].attempted) = 2
  /\ Len(label_to_ticker[1].candidates) = 3
  /\ \E t \in SeqToSet(resolutions[1].attempted) : world[t].status = "raise"
  /\ \E t \in SeqToSet(resolutions[1].attempted) : world[t].status # "raise"
  /\ resolutions[2].ticker # None

\* the labels of the mapping handed to fetch_prices
InputLabels == {label_to_ticker[i].label : i \in 1..Len(label_to_ticker)}

\* C3: after fetch_prices on a non-empty mapping every input label is a column
\* of the panel or in the failed list, never both, never neither; the failed
\* list ascends without duplicates; the keys of the resolved map are the
\* panel's columns; and a column's ticker has rows inside the window
C3_ColumnsOrFailed ==
  (pc = "align_panel" /\ label_to_ticker # <<>>) =>
    LET cols == SeqToSet(price_res.prices.columns)
        failed == SeqToSet(price_res.failed)
    IN  /\ \A l \in InputLabels : (l \in cols) # (l \in failed)
        /\ cols \cup failed \subseteq InputLabels
        /\ \A i, j \in 1..Len(price_res.failed) :
             i < j => Rank(price_res.failed[i]) < Rank(price_res.failed[j])
        /\ Len(price_res.prices.columns) = Cardinality(cols)
        /\ {price_res.resolved[i].label : i \in 1..Len(price_res.resolved)} = cols
        /\ Len(price_res.resolved) = Cardinality(cols)
        /\ \A i \in 1..Len(price_res.resolved) :
             \E d \in SeqToSet(world[price_res.resolved[i].ticker].frame.index) :
               start_date <= d /\ d <= end_date

\* fetch_prices has returned for two labels that both failed, the later one
\* of the alphabet first: one whose download raised, one whose ticker has rows
\* only before the window
C3_Witness ==
  /\ pc = "align_panel"
  /\ fetch_st.failed_labels = <<"Y", "X">>
  /\ price_res.failed = <<"X", "Y">>
  /\ resolutions[1].ticker # None
  /\ ProbeAnswers(resolutions[1].ticker[1])
  /\ resolutions[2].ticker # None
  /\ \A d \in SeqToSet(world[resolutions[2].ticker[1]].frame.index) : d < start_date

\* the four label pairs C9 names
ClaimedPairs ==
  {<<"US IG Corporate", "US Govt Bonds 7-10Y">>,
   <<"US HY Corporate", "US Govt Bonds 7-10Y">>,
   <<"EU IG Corporate", "EU Govt Bonds 7-10Y">>,
   <<"EU HY Corporate", "EU Govt Bonds 7-10Y">>}

\* C9: compute_spread_proxies raises nothing and emits a row for a predefined
\* pair (A, B) if and only if A and B are both rows of the summary, holding
\* Total Return %(A) - Total Return %(B); the pairs are the four named ones;
\* with no pair emitted the result is the empty table
C9_SpreadProxies ==
  /\ pc # "raised"
  /\ pc = "done" =>
       /\ {<<SpreadPairs[i].a, SpreadPairs[i].b>> : i \in 1..Len(SpreadPairs)}
            = ClaimedPairs
       /\ Len(SpreadPairs) = Cardinality(ClaimedPairs)
       /\ \A i \in 1..Len(SpreadPairs) :
            LET pr == SpreadPairs[i]
                emitted == pr.name \in SeqToSet(spread_proxy.index)
            IN  /\ emitted <=> {pr.a, pr.b} \subseteq SeqToSet(summary.index)
                /\ emitted =>
                     spread_proxy.data["Value"][pr.name] =
                       FSub(summary.data["Total Return %"][pr.a],
                            summary.data["Total Return %"][pr.b])
       /\ SeqToSet(spread_proxy.index)
            \subseteq {SpreadPairs[i].name : i \in 1..Len(SpreadPairs)}
       /\ Len(spread_proxy.index) = Cardinality(SeqToSet(spread_proxy.index))
       /\ spread_proxy.index = <<>> => spread_proxy = EmptyFrame

\* the US IG proxy is emitted with a finite value other than zero while the EU
\* IG pair, whose government label is not in the summary, is skipped
C9_Witness ==
  /\ pc = "done"
  /\ SeqToSet(summary.index)
       = {"US IG Corporate", "US Govt Bonds 7-10Y", "EU IG Corporate"}
  /\ spread_proxy.index = <<"US IG Spread Proxy (ret diff %) ">>
  /\ IsFin(spread_proxy.data["Value"]["US IG Spread Proxy (ret diff %) "])
  /\ spread_proxy.data["Value"]["US IG Spread Proxy (ret diff %) "] # Num(0)

\* the stages of app.py that have run once pc has passed them
AfterAlign ==
  pc \in {"compute_returns", "performance_summary", "correlation_matrix",
          "compute_spread_proxies", "done"}

AfterReturns ==
  pc \in {"performance_summary", "correlation_matrix",
          "compute_spread_proxies", "done"}

AfterSummary == pc \in {"correlation_matrix", "compute_spread_proxies", "done"}

AfterTransforms == pc \in {"compute_spread_proxies", "done"}

\* C10: the pipeline never raises; with an empty universe selection it ends
\* with an empty aligned panel, returns panel, summary, correlation matrix,
\* drawdown, normalised and rolling-volatility tables, spread proxies and
\* failed list; and an empty price panel entering a stage comes out of it, and
\* of every later stage, as an empty table
C10_EmptyDegrades ==
  /\ pc # "raised"
  /\ (label_to_ticker = <<>> /\ pc = "done") =>
       /\ IsEmpty(price_res.prices) /\ price_res.failed = <<>>
       /\ IsEmpty(prices) /\ IsEmpty(returns) /\ IsEmpty(summary)
       /\ IsEmpty(corr) /\ IsEmpty(drawdowns) /\ IsEmpty(normalized)
       /\ IsEmpty(roll_vol) /\ IsEmpty(spread_proxy)
  /\ (AfterAlign /\ IsEmpty(price_res.prices)) => IsEmpty(prices)
  /\ (AfterReturns /\ IsEmpty(prices)) => IsEmpty(returns)
  /\ (AfterSummary /\ IsEmpty(prices)) => IsEmpty(summary)
  /\ (AfterTransforms /\ IsEmpty(prices)) =>
       /\ IsEmpty(corr) /\ IsEmpty(drawdowns)
       /\ IsEmpty(normalized) /\ IsEmpty(roll_vol)
  /\ (pc = "done" /\ IsEmpty(prices)) => IsEmpty(spread_proxy)

\* the pipeline has run to its end on an empty universe selection
C10_Witness ==
  /\ pc = "done"
  /\ label_to_ticker = <<>>
  /\ price_res = EmptyResult
  /\ prices = EmptyFrame

-----------------------------------------------------------------------------
(* The end-to-end example: one asset over 2023-01-02 .. 2023-01-10.  Day 0  *)
(* is Thursday 2022-12-29, so the window is days 4 .. 12                    *)

ExampleWindow == <<4, 12>>

ExamplePrices == <<100, 101, 99, 102, 103, 104>>

\* the Monday-to-Friday dates of the example's window
ExampleDays == {d \in ExampleWindow[1]..ExampleWindow[2] : IsBusinessDay(d)}

\* the example's prices, in order, on the dates S
ExampleSeries(S) ==
  [d \in S |-> Num(ExamplePrices[PosOf(SortedSeq(S), d)])]

\* X observed on any Len(ExamplePrices) of the window's weekdays
ExamplePanels ==
  PanelsOf(<<"X">>,
           [l \in {"X"} |->
             {ExampleSeries(S) : S \in {T \in SUBSET ExampleDays :
                                          Cardinality(T) = Len(ExamplePrices)}}])

InitExample ==
  /\ FredIdle
  /\ InitWith("align_panel", {DeadWorld}, {<<>>}, {ExampleWindow}, BOOLEAN,
           BOOLEAN, {TRUE}, BOOLEAN, ExamplePanels)

SpecExample == InitExample /\ [][NextMetrics]_vars

\* C11: over the window 2023-01-02 .. 2023-01-10 on the business-day calendar,
\* with X priced 100, 101, 99, 102, 103, 104, the aligned panel has 6 dates and
\* the summary reports a total return of 4 %, a maximum drawdown of
\* (99/101 - 1) * 100 % and a best day of (102/99 - 1) * 100 %
C11_Example ==
  (pc = "correlation_matrix" /\ business_days) =>
    /\ Len(prices.index) = 6
    /\ summary.index = <<"X">>
    /\ summary.data["Total Return %"]["X"] = Num(4)
    /\ summary.data["Max Drawdown %"]["X"] = Fin(-200, 101)
    /\ summary.data["Best Day %"]["X"] = Fin(100, 33)

-----------------------------------------------------------------------------
(* fetch_prices on raw responses of either layout that carry any of the     *)
(* columns of a download and cells that are numbers, text, missing,         *)
(* infinite or negative                                                     *)

\* a raw cell holding text
NotANumber == [k |-> "str", n |-> 0, d |-> 1]

\* the days a raw response has rows on
RawDays == {0, 1}

\* the columns a raw response carries
RawFields ==
  {<<"Adj Close", "Close">>, <<"Adj Close">>, <<"Close">>,
   <<"Close", "Volume">>, <<"Volume">>, <<"Open", "Volume">>}

CellKinds == {"number", "text", "missing", "inf", "-inf", "negative"}

FieldOffset(f) ==
  CASE f = "Adj Close" -> -1
    [] f = "Close" -> 0
    [] f = "Open" -> 10
    [] f = "Volume" -> 5000

\* the raw cell of the given kind in field f of ticker t on day d
RawCell(t, f, d, kind) ==
  CASE kind = "number" -> Num(TickerBase(t) + FieldOffset(f) + d)
    [] kind = "text" -> NotANumber
    [] kind = "missing" -> NaN
    [] kind = "inf" -> PInf
    [] kind = "-inf" -> NInf
    [] kind = "negative" -> FNeg(Num(TickerBase(t) + FieldOffset(f) + d))

RawTables(t) ==
  UNION {{Table(multi,
                [index |-> SortedSeq(RawDays),
                 columns |-> cols,
                 data |-> [f \in SeqToSet(cols) |->
                            [d \in RawDays |-> RawCell(t, f, d, kinds[f][d])]]]) :
            multi \in BOOLEAN, kinds \in [SeqToSet(cols) -> [RawDays -> CellKinds]]} :
           cols \in RawFields}

\* the data sources in which only ticker t answers
ExtractWorlds(t) ==
  {[u \in Tickers |-> IF u = t THEN r ELSE Raise] : r \in RawTables(t)}

InitExtract ==
  /\ FredIdle
  /\ InitWith("fetch_prices", ExtractWorlds("T1"),
           {<<[label |-> "X", candidates |-> <<"T1">>]>>}, {<<0, MaxDay>>},
           {TRUE}, {TRUE}, BOOLEAN, {TRUE}, {EmptyFrame})

SpecExtract == InitExtract /\ [][NextFetch]_vars

\* the two price fields, the preferred one first
PreferredFirst ==
  IF prefer_adj_close THEN <<"Adj Close", "Close">> ELSE <<"Close", "Adj Close">>

\* the raw response behind the i-th resolved label
RawOf(i) == world[resolutions[i].ticker[1]].frame

\* the price fields the raw response of the i-th label carries, the preferred
\* one first
FieldsOf(i) ==
  SelectSeq(PreferredFirst, LAMBDA f : f \in SeqToSet(RawOf(i).columns))

\* the label is a column of the panel whose cells are the cells of the raw
\* column f: none of f's finite non-negative numbers is left out and nothing
\* that is not a number is let in
SeriesFrom(label, i, f) ==
  /\ label \in SeqToSet(price_res.prices.columns)
  /\ \A d \in SeqToSet(price_res.prices.index) :
       /\ d \in SeqToSet(RawOf(i).index)
       /\ Cell(price_res.prices, label, d) = RawOf(i).data[f][d]
       /\ RawOf(i).data[f][d] # NotANumber
       /\ ~IsNaN(RawOf(i).data[f][d])
  /\ \A d \in SeqToSet(RawOf(i).index) :
       (IsFin(RawOf(i).data[f][d]) /\ RawOf(i).data[f][d].n >= 0)
         => d \in SeqToSet(price_res.prices.index)

\* no entry of the raw column f is a number
NothingValid(i, f) ==
  \A d \in SeqToSet(RawOf(i).index) :
    RawOf(i).data[f][d] = NotANumber \/ IsNaN(RawOf(i).data[f][d])

Failed(label) ==
  /\ label \in SeqToSet(price_res.failed)
  /\ label \notin SeqToSet(price_res.prices.columns)

\* C12: the series of an asset comes from the preferred price field when the
\* raw response has it and otherwise from the other one; with neither field in
\* the raw response, or no valid entry in the selected one, the asset is failed
\* and is no column
C12_FieldSelection ==
  pc = "align_panel" =>
    \A i \in 1..Len(resolutions) :
      resolutions[i].ticker # None =>
        LET label == resolutions[i].label
        IN  /\ label \in SeqToSet(price_res.prices.columns) =>
                 /\ FieldsOf(i) # <<>>
                 /\ SeriesFrom(label, i, FieldsOf(i)[1])
            /\ FieldsOf(i) = <<>> => Failed(label)
            /\ (FieldsOf(i) # <<>> /\ NothingValid(i, FieldsOf(i)[1]))
                 => Failed(label)

\* C12 as the code has it: a raw response with exactly one column is used as
\* that column's series even when the column is neither price field; with
\* neither field and any other number of columns the asset is failed
C12_FieldSelectionOrOnlyColumn ==
  pc = "align_panel" =>
    \A i \in 1..Len(resolutions) :
      resolutions[i].ticker # None =>
        LET label == resolutions[i].label
            only == Len(RawOf(i).columns) = 1
        IN  /\ label \in SeqToSet(price_res.prices.columns) =>
                 \/ FieldsOf(i) # <<>> /\ SeriesFrom(label, i, FieldsOf(i)[1])
                 \/ FieldsOf(i) = <<>> /\ only
                      /\ SeriesFrom(label, i, RawOf(i).columns[1])
            /\ (FieldsOf(i) = <<>> /\ ~only) => Failed(label)
            /\ (FieldsOf(i) # <<>> /\ NothingValid(i, FieldsOf(i)[1]))
                 => Failed(label)
            /\ (FieldsOf(i) = <<>> /\ only
                  /\ NothingValid(i, RawOf(i).columns[1])) => Failed(label)

\* a two-level response without the preferred Adj Close: X's column is the
\* Close field, less the row whose Close is text
C12_Witness ==
  /\ pc = "align_panel"
  /\ prefer_adj_close
  /\ world["T1"].multi
  /\ world["T1"].frame.columns = <<"Close", "Volume">>
  /\ world["T1"].frame.data["Close"][0] = NotANumber
  /\ price_res.prices.columns = <<"X">>
  /\ price_res.prices.index = <<1>>
  /\ Cell(price_res.prices, "X", 1) = world["T1"].frame.data["Close"][1]
  /\ IsFin(Cell(price_res.prices, "X", 1))

\* C17: every value of a series the fetcher keeps, and every populated cell of
\* the panel fetch_prices returns, is a finite number that is not negative
C17_CleanedCells ==
  /\ \A i \in 1..Len(fetch_st.series_map) :
       \A d \in DOMAIN fetch_st.series_map[i].series :
         /\ IsFin(fetch_st.series_map[i].series[d])
         /\ fetch_st.series_map[i].series[d].n >= 0
  /\ \A c \in SeqToSet(price_res.prices.columns) :
       \A d \in SeqToSet(price_res.prices.index) :
         \/ IsNaN(Cell(price_res.prices, c, d))
         \/ /\ IsFin(Cell(price_res.prices, c, d))
            /\ Cell(price_res.prices, c, d).n >= 0

-----------------------------------------------------------------------------
(* The universe selection of app.py, lines 69-80, with entries that are a   *)
(* single string or a list of strings (config_loader.py lines 28-32)        *)

\* a universe entry: a Python str or a Python list of str
PyStr(s) == [kind |-> "str", str |-> s, list |-> <<>>]

PyList(l) == [kind |-> "list", str |-> "", list |-> l]

\* the characters of the identifiers of the model
Chars(s) ==
  CASE s = "" -> <<>>
    [] s = "T" -> <<"T">>
    [] s = "T1" -> <<"T", "1">>

\* what `for x in v` yields: the items of a list, the characters of a str
Iter(v) == IF v.kind = "str" THEN Chars(v.str) ELSE v.list

\* `if ticker:` (line 74): an empty str and an empty list are skipped
Truthy(v) == IF v.kind = "str" THEN v.str # "" ELSE v.list # <<>>

\* lines 71-78 of app.py: the selected entries, handed on as they are; candidates holds
\* what resolve_tickers' iteration over the entry (line 35) yields
SelectedMapping(universe) ==
  LET kept == SelectSeq(universe, LAMBDA e : Truthy(e.value))
  IN  [i \in 1..Len(kept) |->
        [label |-> kept[i].label,
         candidates |-> Iter(kept[i].value),
         value |-> kept[i].value]]

UniverseValues ==
  {PyStr(""), PyStr("T"), PyStr("T1"),
   PyList(<<>>), PyList(<<"T">>), PyList(<<"T1">>)}

Universes ==
  {<<[label |-> "X", value |-> v]>> : v \in UniverseValues}
    \cup {<<[label |-> "X", value |-> v], [label |-> "Y", value |-> u]>> :
            v \in UniverseValues, u \in UniverseValues}

\* the identifiers a probe can be asked for: the universe's and their
\* characters
UniverseTickers == {"T1", "T", "1"}

UniverseWorlds == [UniverseTickers -> {Raise, History("T1", {0, 1})}]

InitUniverse ==
  /\ FredIdle
  /\ InitWith("fetch_prices", UniverseWorlds,
           {SelectedMapping(u) : u \in Universes}, {<<0, MaxDay>>},
           {TRUE}, {TRUE}, {TRUE}, {TRUE}, {EmptyFrame})

SpecUniverse == InitUniverse /\ [][NextFetch]_vars

\* C13: a label whose universe entry is the single string s has exactly s
\* probed, attempted = [s], and s or nothing resolved, as the list [s] has
C13_StringEntry ==
  \A i \in 1..Len(resolutions) :
    label_to_ticker[i].value.kind = "str" =>
      LET s == label_to_ticker[i].value.str
      IN  /\ resolutions[i].attempted = <<s>>
          /\ ProbedFor(resolutions[i].label) = <<s>>
          /\ resolutions[i].ticker =
               (IF world[s].status = "ok" THEN <<s>> ELSE None)

-----------------------------------------------------------------------------
(* Macro Series Fetcher: src/src/data_sources/fred_client.py                *)
(* app.py calls it on line 92; it shares no state with the price pipeline   *)

\* a response of client.get_series: it raises or returns a series
FredRaise == [status |-> "raise", series |-> <<>>]

FredSeries(s) == [status |-> "ok", series |-> s]

\* client.get_series(series_id, observation_start, observation_end): the
\* observations dated start..end
get_series(w, series_id, start, end) ==
  IF w[series_id].status # "ok" THEN w[series_id]
  ELSE LET s == w[series_id].series
       IN  FredSeries([d \in {e \in DOMAIN s : start <= e /\ e <= end} |-> s[d]])

\* Series.dropna()
dropna(s) == [d \in {e \in DOMAIN s : ~IsNaN(s[e])} |-> s[d]]

\* lines 24-31 from the i-th entry of the mapping on: out collects the series
\* kept, log the series ids requested
RECURSIVE FredLoop(_, _, _, _, _, _, _)
FredLoop(w, mapping, i, out, log, start, end) ==
  IF i > Len(mapping) THEN [out |-> out, log |-> log]
  ELSE LET label == mapping[i].label
           r == get_series(w, mapping[i].series_id, start, end)
           called == Append(log, mapping[i].series_id)
       IN  IF r.status = "raise"
           THEN FredLoop(w, mapping, i + 1, out, called, start, end)
           ELSE IF DOMAIN dropna(r.series) = {}
           THEN FredLoop(w, mapping, i + 1, out, called, start, end)
           ELSE FredLoop(w, mapping, i + 1,
                         Append(out, [label |-> label,
                                      series |-> dropna(r.series)]),
                         called, start, end)

\* lines 22-38 with the test of the credential on line 19 left out
fetch_fred_series_any_key(mapping, start, end, key, installed, w) ==
  IF (~installed) \/ mapping = <<>>
  THEN [df |-> EmptyFrame, log |-> <<>>]
  ELSE LET r == FredLoop(w, mapping, 1, <<>>, <<>>, start, end)
       IN  [df |-> IF r.out = <<>> THEN EmptyFrame ELSE concat(r.out),
            log |-> r.log]

\* fetch_fred_series: the table it returns and the requests it makes
fetch_fred_series(mapping, start, end, key, installed, w) ==
  IF key = None \/ key = Some("") \/ (~installed) \/ mapping = <<>>
  THEN [df |-> EmptyFrame, log |-> <<>>]
  ELSE LET r == FredLoop(w, mapping, 1, <<>>, <<>>, start, end)
       IN  [df |-> IF r.out = <<>> THEN EmptyFrame ELSE concat(r.out),
            log |-> r.log]

\* app.py line 92
FetchFred ==
  /\ pc = "fetch_fred_series"
  /\ LET r == fetch_fred_series(fred_mapping, start_date, end_date, api_key,
                                fred_installed, fred_world)
     IN  /\ yields' = r.df
         /\ fred_log' = r.log
  /\ pc' = "fred_done"
  /\ UNCHANGED <<fred_mapping, api_key, fred_installed, fred_world, world,
                 label_to_ticker, start_date, end_date, prefer_adj_close,
                 forward_fill, business_days, pad_fill, probe_log, resolutions,
                 fetch_st, price_res, prices, returns, summary, corr,
                 drawdowns, normalized, roll_vol, spread_proxy>>

\* the series codes of the two yields
SeriesIds == {"DGS2", "DGS10"}

\* what a series code may answer: an error, no observation, only a missing
\* observation, an observation on the window's second day, or a missing
\* observation, one on the window's first day and one after the window
FredResponses ==
  {FredRaise,
   FredSeries(<<>>),
   FredSeries([d \in {0} |-> NaN]),
   FredSeries([d \in {1} |-> Num(4)]),
   FredSeries([d \in {0, 1, MaxDay + 1} |-> IF d = 1 THEN NaN ELSE Num(5 + d)])}

FredMappings ==
  {<<>>,
   <<[label |-> "US 2Y Yield", series_id |-> "DGS2"]>>,
   <<[label |-> "US 10Y Yield", series_id |-> "DGS10"]>>,
   <<[label |-> "US 2Y Yield", series_id |-> "DGS2"],
     [label |-> "US 10Y Yield", series_id |-> "DGS10"]>>,
   <<[label |-> "US 10Y Yield", series_id |-> "DGS10"],
     [label |-> "US 2Y Yield", series_id |-> "DGS2"]>>}

InitFred ==
  /\ InitWith("fetch_fred_series", {DeadWorld}, {<<>>}, {<<0, MaxDay>>},
              {TRUE}, {TRUE}, {TRUE}, {TRUE}, {EmptyFrame})
  /\ fred_mapping \in FredMappings
  /\ api_key \in {None, Some(""), Some("key")}
  /\ fred_installed \in BOOLEAN
  /\ fred_world \in [SeriesIds -> FredResponses]
  /\ fred_log = <<>>
  /\ yields = EmptyFrame

SpecFred == InitFred /\ [][FetchFred]_vars

\* the series code answers with at least one observation inside the window
\* that is not missing
Observes(series_id) ==
  /\ fred_world[series_id].status = "ok"
  /\ \E d \in DOMAIN fred_world[series_id].series :
       /\ start_date <= d /\ d <= end_date
       /\ ~IsNaN(fred_world[series_id].series[d])

\* C14: without a credential (absent or empty), or with an empty mapping,
\* fetch_fred_series returns the empty table and requests no series; otherwise
\* its columns are exactly the labels whose request did not raise and brought
\* an observation that is not missing, a series that raises or is empty does
\* not stop the later ones from being requested, the index ascends, and with
\* no series kept the result is the empty table; nothing is raised
C14_FredFetch ==
  /\ pc # "raised"
  /\ pc = "fred_done" =>
       LET keyed == api_key # None /\ api_key # Some("")
           ids == [i \in 1..Len(fred_mapping) |-> fred_mapping[i].series_id]
           kept == SelectSeq(fred_mapping,
                             LAMBDA e : e.series_id \in SeqToSet(fred_log)
                                          /\ Observes(e.series_id))
       IN  /\ (~keyed \/ fred_mapping = <<>>) =>
                yields = EmptyFrame /\ fred_log = <<>>
           /\ yields.columns = [i \in 1..Len(kept) |-> kept[i].label]
           /\ (keyed /\ fred_installed /\ fred_mapping # <<>>) => fred_log = ids
           /\ \A i, j \in 1..Len(yields.index) :
                i < j => yields.index[i] < yields.index[j]
           /\ \A i \in 1..Len(yields.index) :
                start_date <= yields.index[i] /\ yields.index[i] <= end_date
           /\ yields.columns = <<>> => yields = EmptyFrame

\* with a credential, the first series raises and the second is still
\* requested and becomes the only column, with its one observation inside the
\* window that is not missing
C14_Witness ==
  /\ pc = "fred_done"
  /\ api_key = Some("key")
  /\ Len(fred_mapping) = 2
  /\ fred_world[fred_mapping[1].series_id].status = "raise"
  /\ Len(fred_log) = 2
  /\ yields.columns = <<fred_mapping[2].label>>
  /\ Cardinality(DOMAIN fred_world[fred_mapping[2].series_id].series) = 3
  /\ yields.index = <<0>>

-----------------------------------------------------------------------------
(* The transforms and compute_returns on panels whose prices include a zero *)
(* and an infinity, which the fetcher's cleaning lets through               *)

TransformPrices == {Num(0), Num(100), Num(110), PInf}

\* the series observed on any of the given days, at any of the prices
TransformSeries(days) ==
  UNION {[S -> TransformPrices] : S \in (SUBSET days) \ {{}}}

\* X with any such series, alone or next to a Y that stays at 100
TransformPanels(days) ==
  PanelsOf(<<"X">>, [l \in {"X"} |-> TransformSeries(days)])
    \cup PanelsOf(<<"X", "Y">>,
                  [l \in {"X", "Y"} |->
                    IF l = "X" THEN TransformSeries(days)
                    ELSE {[d \in days |-> Num(100)]}])

InitTransforms ==
  /\ FredIdle
  /\ InitWith("align_panel", {DeadWorld}, {<<>>}, {<<0, MaxDay>>}, BOOLEAN,
              {TRUE}, {TRUE}, BOOLEAN, TransformPanels(BusinessDays))

NextTransforms == Align \/ Returns \/ Summary \/ Transforms

SpecTransforms == InitTransforms /\ [][NextTransforms]_vars

\* the cell of column c in the first row of the aligned panel
FirstRow(c) == Cell(prices, c, prices.index[1])

\* normalize_base_100 has run on a panel with rows, which it left as
\* align_panel made it, and its result has the panel's rows and columns
Normalized ==
  /\ ~IsEmpty(prices)
  /\ prices = align_panel(price_res.prices, start_date, end_date,
                          forward_fill, business_days)
  /\ normalized.index = prices.index
  /\ normalized.columns = prices.columns

\* C15: the first row of normalize_base_100's result is exactly 100 in every
\* column whose first-row observation is valid, and the input panel is not
\* modified
C15_FirstRowIs100 ==
  (pc = "compute_spread_proxies" /\ ~IsEmpty(price_res.prices)) =>
      /\ Normalized
      /\ \A c \in SeqToSet(prices.columns) :
           ~IsNaN(FirstRow(c)) =>
             Cell(normalized, c, prices.index[1]) = Num(100)

\* C15 as the code has it: exactly 100 in every column whose first-row
\* observation is a finite number other than zero
C15_FirstRowIs100NonZero ==
  (pc = "compute_spread_proxies" /\ ~IsEmpty(price_res.prices)) =>
      /\ Normalized
      /\ \A c \in SeqToSet(prices.columns) :
           (IsFin(FirstRow(c)) /\ FirstRow(c).n # 0) =>
             Cell(normalized, c, prices.index[1]) = Num(100)

\* X starts at 110 and moves to 100: its first normalised value is 100 and its
\* last is 100/110 of that
C15_Witness ==
  /\ pc = "compute_spread_proxies"
  /\ FirstRow("X") = Num(110)
  /\ Cell(normalized, "X", prices.index[1]) = Num(100)
  /\ Cell(normalized, "X", prices.index[Len(prices.index)]) = Fin(1000, 11)

\* column c of the aligned panel holds the same valid price v on every row
ConstantAt(c, v) ==
  /\ Len(prices.index) >= 2
  /\ ~IsNaN(v)
  /\ \A d \in SeqToSet(prices.index) : Cell(prices, c, d) = v

\* C16: a constant-price column has a return of exactly zero on every row of
\* compute_returns' result, whatever the constant
C16_ConstantColumnZero ==
  pc = "performance_summary" =>
    \A c \in SeqToSet(prices.columns) :
      ConstantAt(c, FirstRow(c)) =>
        \A d \in SeqToSet(returns.index) : Cell(returns, c, d) = Num(0)

\* C16 as the code has it: exactly zero when the constant is a finite number
\* other than zero
C16_ConstantColumnZeroNonZero ==
  pc = "performance_summary" =>
    \A c \in SeqToSet(prices.columns) :
      (ConstantAt(c, FirstRow(c)) /\ IsFin(FirstRow(c)) /\ FirstRow(c).n # 0) =>
        /\ returns.index = SubSeq(prices.index, 2, Len(prices.index))
        /\ \A d \in SeqToSet(returns.index) : Cell(returns, c, d) = Num(0)

\* X observed at 110 on every row without any filling: two rows of returns,
\* both zero
C16_Witness ==
  /\ pc = "performance_summary"
  /\ ~forward_fill
  /\ prices.columns = <<"X">>
  /\ ConstantAt("X", Num(110))
  /\ Len(returns.index) >= 2
  /\ \A d \in SeqToSet(returns.index) : Cell(returns, "X", d) = Num(0)

\* the data of pair pr is missing: one of its labels is no row of the summary
\* or has no Total Return %
PairDataMissing(pr) ==
  \/ pr.a \notin SeqToSet(summary.index)
  \/ pr.b \notin SeqToSet(summary.index)
  \/ IsNaN(summary.data["Total Return %"][pr.a])
  \/ IsNaN(summary.data["Total Return %"][pr.b])

\* C18: compute_spread_proxies raises nothing; it emits no row for a pair whose
\* data is missing and no row with a missing value, and it emits the row of
\* every pair whose data is there
C18_MissingPairOmitted ==
  /\ pc # "raised"
  /\ pc = "done" =>
       /\ \A i \in 1..Len(SpreadPairs) :
            PairDataMissing(SpreadPairs[i])
              <=> SpreadPairs[i].name \notin SeqToSet(spread_proxy.index)
       /\ \A r \in SeqToSet(spread_proxy.index) :
            ~IsNaN(spread_proxy.data["Value"][r])

\* ticker t has rows of prices inside the requested window
UsableInWindow(t) ==
  /\ world[t].status = "ok"
  /\ \E d \in SeqToSet(world[t].frame.index) :
       start_date <= d /\ d <= end_date

\* C19: a label is in fetch_prices' failed list only when every one of its
\* non-empty candidates was attempted and none of them has usable prices inside
\* the window
C19_FailedOnlyWhenNoneUsable ==
  (pc = "align_panel" /\ label_to_ticker # <<>>) =>
    \A i \in 1..Len(resolutions) :
      resolutions[i].label \in SeqToSet(price_res.failed) =>
        /\ resolutions[i].attempted = CandidatesOf(i)
        /\ \A k \in 1..Len(CandidatesOf(i)) : ~UsableInWindow(CandidatesOf(i)[k])

=============================================================================
